---------------------------- MODULE Spec2Model ----------------------------
(***************************************************************************)
(* Skate-Hustle-Demo: the player locomotion controller, the ground-contact *)
(* tracker, the trigger zones and the scene switch.                        *)
(*                                                                         *)
(* The reference revision is the rigid-body (Matter) one,                  *)
(* src/unnamed/part_000.  src/main.js holds two earlier arcade-physics     *)
(* revisions; the first one (GameScene.update, main.js:161-249) is         *)
(* modelled by its own specification, SpecRev1.                            *)
(*                                                                         *)
(* Velocities of the Matter revision are fixed-point numbers in units of   *)
(* 1/100 px per step: 0.12 is 12, 0.25 is 25, 5 is 500, 9 is 900.          *)
(* Products round toward zero.                                             *)
(***************************************************************************)
EXTENDS Integers, Sequences, FiniteSets

VARIABLES
  scene,            \* the one active scene
  player,           \* PlayerController.player: "sprite", "destroyed" (no body), "null", "none"
  onGroundContacts, \* player.onGroundContacts
  isKicking,        \* PlayerController.isKicking
  isBraking,        \* PlayerController.isBraking
  flipX,            \* player.flipX (TRUE: facing left)
  pose,             \* texture / animation shown by the sprite
  vx, vy,           \* body.velocity
  timers,           \* elapsed ms of each pending kick-expiry delayedCall
  upKey,            \* cursors.up: [isDown, justDown]
  collectibleCollected, collectible, score,   \* hub scene
  blocked, accelX, dragX,   \* arcade body (first revision): blocked.down, acceleration.x, drag.x
  pc,               \* position in the frame loop
  sincePress,       \* update() calls since the up key last went down (2: two or more, or never)
  lastOp,           \* the operation that produced this state and what it did
  threw,            \* an uncaught exception left the last update
  height,           \* gap between the foot sensor and the ground, 1/100 px
                    \* (followed in the landing scenario only)
  ticks,            \* frames played of the braking scenario
  jumps,            \* updates that set the jump velocity during the current
                    \* ground contact (2: two or more)
  bgMusic,          \* GameScene.bgMusic refers to a track (is not null)
  rampMusic,        \* RampScene.rampMusic refers to a track (is not null)
  playing,          \* the sound manager: tracks playing, per audio key
  points,           \* the point list handed to a terrain builder
  built,            \* what the terrain builder left: the collision shapes
                    \* created and whether it signalled an error
  touching          \* the static bodies whose contact with the foot sensor
                    \* the engine has reported begun and not yet ended, kept
                    \* where the events come as the engine's pair list makes
                    \* them (ContactStart, ContactEnd)

ctlVars == << isKicking, isBraking, flipX, pose, vx, vy, timers >>
hubVars == << collectibleCollected, collectible, score >>
arcadeVars == << blocked, accelX, dragX >>
stageVars == << height, ticks >>
musicVars == << bgMusic, rampMusic, playing >>
terrainVars == << points, built >>

playVars == << scene, player, onGroundContacts, ctlVars, upKey, hubVars,
               arcadeVars, pc, sincePress, lastOp, threw, stageVars, jumps,
               musicVars >>

vars == << playVars, terrainVars, touching >>

----------------------------------------------------------------------------
\* Bounds of the model

MaxContacts == 3     \* begin events are delivered while the counter is below this

----------------------------------------------------------------------------
\* Program constants (part_000:156-161, 189-199, 214)

JumpSpeed == -1000
MoveAccel == 12
IdleThreshold == 25
MaxVelX == 900
MaxVelY == 3000
KickSpeed == 500
KickDelay == 450
Reward == 10

\* Velocities the physics step hands to the controller, and frame durations
VelXSamples == { -950, -900, -25, -24, 0, 24, 25, 300, 900, 950 }
VelYSamples == { 0, 3500 }
CoarseVelX == { 0, 300 }
CoarseVelY == { 0 }
FrameDeltas == { 225, 450 }

Abs(x) == IF x < 0 THEN -x ELSE x

\* a * n / d rounded toward zero
MulDiv(a, n, d) == IF a >= 0 THEN (a * n) \div d ELSE -(((-a) * n) \div d)

\* Phaser.Math.Clamp(v, lo, hi)
Clamp(v, lo, hi) == IF v < lo THEN lo ELSE IF v > hi THEN hi ELSE v

----------------------------------------------------------------------------
\* Bodies of the Matter world: the two parts of the player compound
\* (createPlayer), the terrain and a world-bounds wall.

Bodies == { [label |-> "PLAYER",         isStatic |-> FALSE],
            [label |-> "FOOT_SENSOR",    isStatic |-> FALSE],
            [label |-> "GROUND",         isStatic |-> TRUE],
            [label |-> "Rectangle Body", isStatic |-> TRUE] }

\* A collision pair: two distinct bodies, in either order
Pairs == { p \in [bodyA : Bodies, bodyB : Bodies] : p.bodyA # p.bodyB }

\* event.pairs: one pair, or one or two
SingleEvents == { << p >> : p \in Pairs }

Events == SingleEvents \cup { << p, q >> : p \in Pairs, q \in Pairs }

\* GameScene.onCollisionStart, body of the loop
StartPairNoStaticTest(n, A, B) ==
  IF A.label = "FOOT_SENSOR" THEN n + 1
  ELSE IF B.label = "FOOT_SENSOR" THEN n + 1
  ELSE n

GameStartPair(n, A, B) ==
  IF A.label = "FOOT_SENSOR" /\ B.isStatic THEN n + 1
  ELSE IF B.label = "FOOT_SENSOR" /\ A.isStatic THEN n + 1
  ELSE n

\* GameScene.onCollisionEnd, body of the loop
EndPairUnclamped(n, A, B) ==
  IF A.label = "FOOT_SENSOR" /\ B.isStatic THEN n - 1
  ELSE IF B.label = "FOOT_SENSOR" /\ A.isStatic THEN n - 1
  ELSE n

GameEndPair(n, A, B) ==
  IF A.label = "FOOT_SENSOR" /\ B.isStatic THEN (IF n - 1 > 0 THEN n - 1 ELSE 0)
  ELSE IF B.label = "FOOT_SENSOR" /\ A.isStatic THEN (IF n - 1 > 0 THEN n - 1 ELSE 0)
  ELSE n

\* RampScene.create, collisionstart handler: two independent ifs
RampStartPair(n, A, B) ==
  LET n1 == IF A.label = "FOOT_SENSOR" /\ B.isStatic THEN n + 1 ELSE n
  IN  IF B.label = "FOOT_SENSOR" /\ A.isStatic THEN n1 + 1 ELSE n1

\* RampScene.create, collisionend handler: two independent ifs
RampEndPairFirstIf(n, A, B) ==
  IF A.label = "FOOT_SENSOR" /\ B.isStatic
  THEN (IF n - 1 > 0 THEN n - 1 ELSE 0) ELSE n

RampEndPair(n, A, B) ==
  LET n1 == IF A.label = "FOOT_SENSOR" /\ B.isStatic
            THEN (IF n - 1 > 0 THEN n - 1 ELSE 0) ELSE n
  IN  IF B.label = "FOOT_SENSOR" /\ A.isStatic
      THEN (IF n1 - 1 > 0 THEN n1 - 1 ELSE 0) ELSE n1

StartPair(sc, n, A, B) ==
  IF sc = "GameScene" THEN GameStartPair(n, A, B) ELSE RampStartPair(n, A, B)

EndPair(sc, n, A, B) ==
  IF sc = "GameScene" THEN GameEndPair(n, A, B) ELSE RampEndPair(n, A, B)

\* for (const pair of event.pairs) ...
RECURSIVE StartAll(_, _, _)
StartAll(sc, n, e) ==
  IF e = << >> THEN n
  ELSE StartAll(sc, StartPair(sc, n, Head(e).bodyA, Head(e).bodyB), Tail(e))

RECURSIVE EndAll(_, _, _)
EndAll(sc, n, e) ==
  IF e = << >> THEN n
  ELSE EndAll(sc, EndPair(sc, n, Head(e).bodyA, Head(e).bodyB), Tail(e))

\* PlayerController.onGround
onGround == onGroundContacts > 0

----------------------------------------------------------------------------
\* Terrain builders.  A point is [x, y] in px.  Lengths are kept squared and
\* the angle of a segment as its direction vector (dx, dy); midpoints are in
\* half px; a polygon's centroid and its local vertices are kept multiplied
\* by the number of points.

Thickness == 40       \* RampScene.create: thickness of the collision strip

\* nothing built
NoTerrain == [by |-> "none", threw |-> FALSE, shapes |-> << >>]

SegmentFromFirst(p1, p2) ==
  [label |-> "GROUND", isStatic |-> TRUE, thick |-> 6,
   mid2 |-> [x |-> p1.x + p1.x, y |-> p1.y + p1.y],
   len2 |-> (p2.x - p1.x) * (p2.x - p1.x) + (p2.y - p1.y) * (p2.y - p1.y),
   dir  |-> [x |-> p2.x - p1.x, y |-> p2.y - p1.y]]

\* createRampEdges, body of the loop: the thin static rectangle from p1 to p2
Segment(p1, p2) ==
  [label |-> "GROUND", isStatic |-> TRUE, thick |-> 6,
   mid2 |-> [x |-> p1.x + p2.x, y |-> p1.y + p2.y],
   len2 |-> (p2.x - p1.x) * (p2.x - p1.x) + (p2.y - p1.y) * (p2.y - p1.y),
   dir  |-> [x |-> p2.x - p1.x, y |-> p2.y - p1.y]]

\* createRampEdges: for (let i = 0; i < points.length - 1; i++) ...
CreateRampEdges(pts) ==
  [by |-> "createRampEdges", threw |-> FALSE,
   shapes |-> [i \in 1..(Len(pts) - 1) |-> Segment(pts[i], pts[i + 1])]]

\* The two ends of a segment rectangle's centre line, in half px: the
\* midpoint less and plus half the length along the angle
SegStart2(sg) == [x |-> sg.mid2.x - sg.dir.x, y |-> sg.mid2.y - sg.dir.y]

SegEnd2(sg) == [x |-> sg.mid2.x + sg.dir.x, y |-> sg.mid2.y + sg.dir.y]

RECURSIVE SumX(_)
SumX(pts) == IF pts = << >> THEN 0 ELSE Head(pts).x + SumX(Tail(pts))

RECURSIVE SumY(_)
SumY(pts) == IF pts = << >> THEN 0 ELSE Head(pts).y + SumY(Tail(pts))

\* createSplineGround, createMatterPolygon: the body matter.add.fromVertices
\* is asked for: centroid and vertices relative to it
PolygonBody(pts) ==
  [label |-> "GROUND", isStatic |-> TRUE, n |-> Len(pts),
   centre |-> [x |-> SumX(pts), y |-> SumY(pts)],
   verts  |-> [i \in 1..Len(pts) |->
                 [x |-> Len(pts) * pts[i].x - SumX(pts),
                  y |-> Len(pts) * pts[i].y - SumY(pts)]]]

\* What the call leaves.  Neither builder tests its input; from fewer than
\* three vertices the engine makes a body, makes none, or throws
PolygonOutcomes(who, pts) ==
  { [by |-> who, threw |-> FALSE, shapes |-> << PolygonBody(pts) >>] }
  \cup (IF Len(pts) < 3
        THEN { [by |-> who, threw |-> FALSE, shapes |-> << >>],
               [by |-> who, threw |-> TRUE, shapes |-> << >>] }
        ELSE { })

\* RampScene.create: bottomPoints
BottomPoints(pts) ==
  [i \in 1..Len(pts) |-> [x |-> pts[i].x, y |-> pts[i].y + Thickness]]

\* Array.prototype.reverse, on the copy slice() made
Reverse(sq) == [i \in 1..Len(sq) |-> sq[Len(sq) + 1 - i]]

FullPolygonUnreversed(pts) == pts \o BottomPoints(pts)

\* RampScene.create: fullPolygon
FullPolygon(pts) == pts \o Reverse(BottomPoints(pts))

\* RampScene.create: createMatterPolygon(fullPolygon)
RampTerrain(top) == PolygonOutcomes("createMatterPolygon", FullPolygon(top))

\* RampScene.create: this.rampPoints, the authored top of the ramp
RampPoints ==
  << [x |-> 4, y |-> 286], [x |-> 44, y |-> 286], [x |-> 84, y |-> 286],
     [x |-> 123, y |-> 352], [x |-> 163, y |-> 413], [x |-> 202, y |-> 445],
     [x |-> 242, y |-> 465], [x |-> 282, y |-> 477], [x |-> 322, y |-> 482],
     [x |-> 361, y |-> 484], [x |-> 401, y |-> 483], [x |-> 441, y |-> 483],
     [x |-> 480, y |-> 480], [x |-> 520, y |-> 474], [x |-> 560, y |-> 462],
     [x |-> 600, y |-> 443], [x |-> 639, y |-> 412], [x |-> 679, y |-> 355],
     [x |-> 718, y |-> 286], [x |-> 758, y |-> 286], [x |-> 798, y |-> 286] >>

\* GameScene.create: the invisible slab under the wheel line, 800 wide and 40
\* thick, its centre line at y = 480 + 20
GroundSlab ==
  [by |-> "GameScene.create", threw |-> FALSE,
   shapes |-> << [Segment([x |-> 0, y |-> 500], [x |-> 800, y |-> 500])
                    EXCEPT !.thick = 40] >>]

----------------------------------------------------------------------------
\* PlayerController.update (part_000:171-249), piece by piece.  body.velocity
\* is the live vector of the Matter body: setVelocityX writes into it, so
\* every later read of vel.x in the same update sees the value just set.

\* still, standing
Still(v) == Abs(v) < IdleThreshold

\* Kick from standstill: the guard
KickGuardNoFlag(k, g, s, l, r) == g /\ s /\ (l \/ r)

KickGuard(k, g, s, l, r) == ~k /\ g /\ s /\ (l \/ r)

\* player.setVelocityX(right ? 5 : -5)
KickVelocityAlwaysRight(r) == KickSpeed

KickVelocity(r) == IF r THEN KickSpeed ELSE -KickSpeed

\* scene.time.delayedCall(450, ...): one more pending event, of age 0
DelayedCallDropped(ts) == ts

DelayedCall(ts) == Append(ts, 0)

\* Braking: the guard, and vel.x * 0.75
BrakeGuard(g, d) == g /\ d

NoDamp(v) == v

Damp(v) == MulDiv(v, 75, 100)

\* targetVX *= 0.96
Drift(v) == MulDiv(v, 96, 100)

\* Horizontal motion: targetVX before the clamp
TargetVX(v, l, r, d) ==
  IF ~d THEN (IF l THEN v - MoveAccel
              ELSE IF r THEN v + MoveAccel
              ELSE Drift(v))
  ELSE v

\* Phaser.Math.Clamp(targetVX, -maxVelX, maxVelX)
ClampVXUpperOnly(v) == IF v > MaxVelX THEN MaxVelX ELSE v

ClampVX(v) == Clamp(v, -MaxVelX, MaxVelX)

\* player.flipX after the horizontal-motion block
NextFlipX(f, l, r, d) ==
  IF ~d /\ l THEN TRUE
  ELSE IF ~d /\ r THEN FALSE
  ELSE f

\* Clamp vertical speed, then jump
NoClampVY(v) == v

ClampVY(v) == IF v > MaxVelY THEN MaxVelY ELSE v

JumpGuard(g, jumpPressed) == g /\ jumpPressed

\* Phaser.Input.Keyboard.JustDown(key): reads the latch and clears it
JustDown(key) == key.justDown

AfterJustDown(key) == [key EXCEPT !.justDown = FALSE]

\* Animations: the if-chain at the end of update
PoseKickFirst(g, b, k, standing) ==
  IF k THEN "push"
  ELSE IF ~g THEN "air"
  ELSE IF b THEN "brake"
  ELSE IF standing THEN "idle"
  ELSE "roll"

PoseOf(g, b, k, standing) ==
  IF ~g THEN "air"
  ELSE IF b THEN "brake"
  ELSE IF k THEN "push"
  ELSE IF standing THEN "idle"
  ELSE "roll"

\* if (!player || !body) return;
ReturnsEarlyNoBodyTest(p) == p = "null"

ReturnsEarly(p) == p # "sprite"

\* The velocity after the whole update, from the velocity before it
VXAfter(v, k, g, l, r, d) ==
  LET kick == KickGuard(k, g, Still(v), l, r)
      v1   == IF kick THEN KickVelocity(r) ELSE v
      v2   == IF BrakeGuard(g, d) THEN Damp(v1) ELSE v1
  IN  ClampVX(TargetVX(v2, l, r, d))

\* What an operation leaves in lastOp.  before: the counter before a collision
\* event, the horizontal velocity before an update.  foot: the pairs of a
\* collision event made of the foot sensor and a static body.
Op(name, kick, jump, bef, ft, ov, col) ==
  [op |-> name, kicked |-> kick, jumped |-> jump, before |-> bef, foot |-> ft,
   ovC |-> ov, collected |-> col]

NoOp(name) == Op(name, FALSE, FALSE, 0, 0, FALSE, FALSE)

Tick(n) == IF n < 2 THEN n + 1 ELSE 2

\* The controller's part of a frame.  l, r, d: cursors.left/right/down.isDown;
\* ov, col: what the calling scene's update did with the collectible
ControllerUpdate(l, r, d, ov, col) ==
  /\ sincePress' = Tick(sincePress)
  /\ IF player = "null"
     THEN \* const body = player.body  throws before the guard is reached
          /\ threw' = TRUE
          /\ lastOp' = Op("update", FALSE, FALSE, vx, 0, ov, col)
          /\ UNCHANGED << ctlVars, upKey, jumps >>
     ELSE IF ReturnsEarly(player)
     THEN /\ threw' = FALSE
          /\ lastOp' = Op("update", FALSE, FALSE, vx, 0, ov, col)
          /\ UNCHANGED << ctlVars, upKey, jumps >>
     ELSE LET g    == onGround
              kick == KickGuard(isKicking, g, Still(vx), l, r)
              jp   == JustDown(upKey)
              jump == JumpGuard(g, jp)
              k1   == isKicking \/ kick
              b1   == BrakeGuard(g, d)
              vx1  == VXAfter(vx, isKicking, g, l, r, d)
          IN  /\ threw' = FALSE
              /\ isKicking' = k1
              /\ timers' = IF kick THEN DelayedCall(timers) ELSE timers
              /\ isBraking' = b1
              /\ flipX' = NextFlipX(flipX, l, r, d)
              /\ vx' = vx1
              /\ vy' = IF jump THEN JumpSpeed ELSE ClampVY(vy)
              /\ upKey' = AfterJustDown(upKey)
              /\ pose' = PoseOf(g, b1, k1, Still(vx1))
              /\ lastOp' = Op("update", kick, jump, vx, 0, ov, col)
              /\ jumps' = IF jump THEN Tick(jumps) ELSE jumps

----------------------------------------------------------------------------
\* Scenes

NoKey == [isDown |-> FALSE, justDown |-> FALSE]

\* The sound manager belongs to the game, not to a scene: a track plays until
\* it is stopped.  p: tracks playing per audio key
Silence == [mainMusic |-> 0, rampMusic |-> 0]

\* this.sound.add(key, { loop: true }).play()
PlayTwice(p, key) == [p EXCEPT ![key] = @ + 2]

PlayTrack(p, key) == [p EXCEPT ![key] = @ + 1]

\* if (this.bgMusic) { this.bgMusic.stop(); this.bgMusic = null; }
\* ref: the field refers to a track
KeepTrack(ref, p, key) == p

StopTrack(ref, p, key) == IF ref THEN [p EXCEPT ![key] = @ - 1] ELSE p

\* scene.start(...) shuts the running scene down; its clock drops every
\* pending delayedCall.  ts: the expiries pending in the scene torn down
ClockKeeps(ts) == ts

ClockShutdown(ts) == << >>

\* The hub's own fields: as the scene object still has them from its last
\* run, and as GameScene.create sets them
KeepHub ==
  [collected |-> collectibleCollected, exists |-> collectible, score |-> score]

FreshHub == [collected |-> FALSE, exists |-> TRUE, score |-> 0]

\* What a scene start leaves in lastOp: in left, the state the scene shut
\* down was left with, and the hub's score as the scene object still has it
Teardown ==
  [op |-> "start", kicked |-> FALSE, jumped |-> FALSE, before |-> 0, foot |-> 0,
   ovC |-> FALSE, collected |-> FALSE,
   left |-> [scene |-> scene, isKicking |-> isKicking, pending |-> Len(timers),
             contacts |-> onGroundContacts, score |-> score]]

\* createPlayer + new PlayerController: what every create() of a playing
\* scene sets up.  The scene's clock and keyboard are the new scene's own.
FreshPlayer ==
  /\ player' = "sprite"
  /\ onGroundContacts' = 0
  /\ isKicking' = FALSE
  /\ isBraking' = FALSE
  /\ flipX' = FALSE
  /\ pose' = "idle"
  /\ vx' = 0
  /\ vy' = 0
  /\ timers' = ClockShutdown(timers)
  /\ touching' = { }
  /\ upKey' = NoKey
  /\ sincePress' = 2
  /\ threw' = FALSE
  /\ jumps' = 0

\* GameScene.create
GameCreate ==
  /\ scene' = "GameScene"
  /\ FreshPlayer
  /\ collectibleCollected' = FreshHub.collected
  /\ collectible' = FreshHub.exists
  /\ score' = FreshHub.score
  /\ bgMusic' = TRUE
  /\ playing' = PlayTrack(playing, "mainMusic")
  /\ points' = << >>
  /\ built' = GroundSlab
  /\ pc' = "clock"
  /\ UNCHANGED << arcadeVars, stageVars, rampMusic >>

\* RampScene.create
RampCreate ==
  /\ scene' = "RampScene"
  /\ FreshPlayer
  /\ rampMusic' = TRUE
  /\ playing' = PlayTrack(playing, "rampMusic")
  /\ points' = RampPoints
  /\ built' \in RampTerrain(RampPoints)
  /\ pc' = "clock"
  /\ UNCHANGED << hubVars, arcadeVars, stageVars, bgMusic >>

\* TitleScene.create: keydown-SPACE starts the hub
StartGame ==
  /\ scene = "TitleScene"
  /\ GameCreate
  /\ lastOp' = Teardown

Playing == scene \in { "GameScene", "RampScene" }

\* The keyboard between two frames: the up key goes down (Key.onDown sets the
\* just-down latch) or up
KeyUpDown ==
  /\ Playing /\ pc = "clock"
  /\ ~upKey.isDown
  /\ upKey' = [isDown |-> TRUE, justDown |-> TRUE]
  /\ sincePress' = 0
  /\ lastOp' = NoOp("keydown")
  /\ UNCHANGED << scene, player, onGroundContacts, ctlVars, hubVars, arcadeVars,
                  pc, threw, stageVars, jumps, musicVars,
                  terrainVars, touching >>

KeyUpUp ==
  /\ Playing /\ pc = "clock"
  /\ upKey.isDown
  /\ upKey' = [upKey EXCEPT !.isDown = FALSE]
  /\ lastOp' = NoOp("keyup")
  /\ UNCHANGED << scene, player, onGroundContacts, ctlVars, hubVars, arcadeVars,
                  pc, sincePress, threw, stageVars, jumps, musicVars,
                  terrainVars, touching >>

\* The scene clock: every pending delayedCall ages by the frame's delta; one
\* whose delay has elapsed runs its callback, () => { this.isKicking = false }
NotAged(ts, delta) == ts

Aged(ts, delta) == [i \in 1..Len(ts) |-> ts[i] + delta]

Pending(ts, delay) == SelectSeq(ts, LAMBDA t : t < delay)

ClockUpdate ==
  /\ Playing /\ pc = "clock"
  /\ \E delta \in FrameDeltas :
       LET aged  == Aged(timers, delta)
           fired == Len(Pending(aged, KickDelay)) < Len(aged)
       IN  /\ timers' = Pending(aged, KickDelay)
           /\ isKicking' = IF fired THEN FALSE ELSE isKicking
           /\ lastOp' = IF fired THEN NoOp("expiry") ELSE NoOp("clock")
  /\ pc' = "physics"
  /\ UNCHANGED << scene, player, onGroundContacts, isBraking, flipX, pose, vx, vy,
                  upKey, hubVars, arcadeVars, sincePress, threw, stageVars,
                  jumps, musicVars, terrainVars, touching >>

\* The Matter world step: the body's velocity after integration and collision
\* response is whatever the engine computes
PhysicsStepIn(SX, SY) ==
  /\ Playing /\ pc = "physics"
  /\ vx' \in SX
  /\ vy' \in SY
  /\ pc' = "start"
  /\ lastOp' = NoOp("physics")
  /\ UNCHANGED << scene, player, onGroundContacts, isKicking, isBraking, flipX,
                  pose, timers, upKey, hubVars, arcadeVars, sincePress, threw,
                  stageVars, jumps, musicVars, terrainVars, touching >>

\* The pairs of an event made of the foot sensor and a static body
FootPair(p) ==
  \/ p.bodyA.label = "FOOT_SENSOR" /\ p.bodyB.label # "FOOT_SENSOR" /\ p.bodyB.isStatic
  \/ p.bodyB.label = "FOOT_SENSOR" /\ p.bodyA.label # "FOOT_SENSOR" /\ p.bodyA.isStatic

FootPairs(e) == Cardinality({ i \in 1..Len(e) : FootPair(e[i]) })

\* collisionstart: the scene's handler runs over event.pairs
CollisionStart(e) ==
  /\ Playing /\ pc = "start"
  /\ onGroundContacts < MaxContacts
  /\ onGroundContacts' = StartAll(scene, onGroundContacts, e)
  /\ lastOp' = Op("collisionstart", FALSE, FALSE, onGroundContacts,
                  FootPairs(e), FALSE, FALSE)
  /\ pc' = "end"
  /\ UNCHANGED << scene, player, ctlVars, upKey, hubVars, arcadeVars, sincePress,
                  threw, stageVars, jumps, musicVars, terrainVars >>

OnCollisionStartIn(E) ==
  /\ \E e \in E : CollisionStart(e)
  /\ UNCHANGED touching

\* no collisionstart event in this step
NoCollisionStart ==
  /\ Playing /\ pc = "start"
  /\ pc' = "end"
  /\ lastOp' = NoOp("physics")
  /\ UNCHANGED << scene, player, onGroundContacts, ctlVars, upKey, hubVars,
                  arcadeVars, sincePress, threw, stageVars, jumps, musicVars,
                  terrainVars, touching >>

\* collisionend: the scene's handler runs over event.pairs
CollisionEnd(e) ==
  /\ Playing /\ pc = "end"
  /\ onGroundContacts' = EndAll(scene, onGroundContacts, e)
  /\ jumps' = IF EndAll(scene, onGroundContacts, e) = 0 THEN 0 ELSE jumps
  /\ lastOp' = Op("collisionend", FALSE, FALSE, onGroundContacts,
                  FootPairs(e), FALSE, FALSE)
  /\ pc' = "update"
  /\ UNCHANGED << scene, player, ctlVars, upKey, hubVars, arcadeVars, sincePress,
                  threw, stageVars, musicVars, terrainVars >>

OnCollisionEndIn(E) ==
  /\ \E e \in E : CollisionEnd(e)
  /\ UNCHANGED touching

NoCollisionEnd ==
  /\ Playing /\ pc = "end"
  /\ pc' = "update"
  /\ lastOp' = NoOp("physics")
  /\ UNCHANGED << scene, player, onGroundContacts, ctlVars, upKey, hubVars,
                  arcadeVars, sincePress, threw, stageVars, jumps, musicVars,
                  terrainVars, touching >>

----------------------------------------------------------------------------
\* The scenes' update()

\* GameScene.update: the condition under which collectItem() is called
CollectGuardOverlapOnly(collected, exists, ov) == ov

CollectGuard(collected, exists, ov) == ~collected /\ exists /\ ov

\* GameScene.update: where the frame goes after the hustle-point test.  ovP:
\* the player's bounds intersect the hustle point's
PortalExitAlways(ovP) == "toRamp"

PortalExit(ovP) == IF ovP THEN "toRamp" ELSE "clock"

\* GameScene.update: the controller, then the two manual overlaps.  ovC, ovP:
\* whether the player's bounds intersect the collectible's, the hustle point's.
\* collectItem() sets the flag, destroys the rectangle and adds the reward;
\* enterRampRoom() stops the hub's music and asks for the ramp scene, which
\* replaces the hub before the next frame.
GameUpdateWith(l, r, d, ovC, ovP) ==
  /\ scene = "GameScene" /\ pc = "update"
  /\ LET col == CollectGuard(collectibleCollected, collectible, ovC)
     IN  /\ ControllerUpdate(l, r, d, ovC, col)
         /\ IF col
            THEN /\ collectibleCollected' = TRUE
                 /\ collectible' = FALSE
                 /\ score' = score + Reward
            ELSE UNCHANGED hubVars
  /\ pc' = PortalExit(ovP)
  /\ IF ovP
     THEN /\ playing' = StopTrack(bgMusic, playing, "mainMusic")
          /\ bgMusic' = FALSE
     ELSE UNCHANGED << bgMusic, playing >>
  /\ UNCHANGED << scene, player, onGroundContacts, arcadeVars, stageVars,
                  rampMusic, terrainVars, touching >>

GameUpdateIn(OvC, OvP) ==
  \E l, r, d \in BOOLEAN : \E ovC \in OvC : \E ovP \in OvP :
     GameUpdateWith(l, r, d, ovC, ovP)

\* the player anywhere in the hub
GameUpdate == GameUpdateIn(BOOLEAN, BOOLEAN)

\* the player away from the collectible and from the hustle point
GameUpdateAway == GameUpdateIn({ FALSE }, { FALSE })

\* RampScene.update: ESC stops the ramp's music and returns to the hub before
\* the controller runs
RampUpdateWith(l, r, d) ==
  /\ scene = "RampScene" /\ pc = "update"
  /\ ControllerUpdate(l, r, d, FALSE, FALSE)
  /\ pc' = "clock"
  /\ UNCHANGED << scene, player, onGroundContacts, hubVars, arcadeVars, stageVars,
                  musicVars, terrainVars, touching >>

RampUpdate == \E l, r, d \in BOOLEAN : RampUpdateWith(l, r, d)

RampEscape ==
  /\ scene = "RampScene" /\ pc = "update"
  /\ pc' = "toGame"
  /\ playing' = StopTrack(rampMusic, playing, "rampMusic")
  /\ rampMusic' = FALSE
  /\ lastOp' = NoOp("escape")
  /\ UNCHANGED << scene, player, onGroundContacts, ctlVars, upKey, hubVars,
                  arcadeVars, sincePress, threw, stageVars, jumps, bgMusic,
                  terrainVars, touching >>

\* scene.start(...): the running scene is shut down and the target created
EnterRampRoom ==
  /\ scene = "GameScene" /\ pc = "toRamp"
  /\ RampCreate
  /\ lastOp' = Teardown

ReturnToGame ==
  /\ scene = "RampScene" /\ pc = "toGame"
  /\ GameCreate
  /\ lastOp' = Teardown

----------------------------------------------------------------------------
InitPlay ==
  /\ scene = "TitleScene"
  /\ player = "none"
  /\ onGroundContacts = 0
  /\ isKicking = FALSE
  /\ isBraking = FALSE
  /\ flipX = FALSE
  /\ pose = "idle"
  /\ vx = 0
  /\ vy = 0
  /\ timers = << >>
  /\ upKey = NoKey
  /\ collectibleCollected = FALSE
  /\ collectible = FALSE
  /\ score = 0
  /\ blocked = FALSE
  /\ accelX = 0
  /\ dragX = 0
  /\ pc = "title"
  /\ sincePress = 2
  /\ lastOp = NoOp("init")
  /\ threw = FALSE
  /\ height = 0
  /\ ticks = 0
  /\ jumps = 0
  /\ bgMusic = FALSE
  /\ rampMusic = FALSE
  /\ playing = Silence

Init ==
  /\ InitPlay
  /\ points = << >>
  /\ built = NoTerrain
  /\ touching = { }

\* The hub with the player away from the trigger zones: fine-grained physics,
\* collision events of one pair
PhysicsStep == PhysicsStepIn(VelXSamples, VelYSamples)

OnCollisionStartOne == OnCollisionStartIn(SingleEvents)

OnCollisionEndOne == OnCollisionEndIn(SingleEvents)

Next ==
  \/ StartGame
  \/ KeyUpDown
  \/ KeyUpUp
  \/ ClockUpdate
  \/ PhysicsStep
  \/ OnCollisionStartOne
  \/ NoCollisionStart
  \/ OnCollisionEndOne
  \/ NoCollisionEnd
  \/ GameUpdateAway

Spec == Init /\ [][Next]_vars

\* The game loop keeps running: Phaser's step calls, every frame, the scene
\* clock, the Matter world (which emits the collision events) and the scene's
\* update
Fairness ==
  /\ WF_vars(ClockUpdate)
  /\ WF_vars(PhysicsStep)
  /\ WF_vars(OnCollisionStartOne \/ NoCollisionStart)
  /\ WF_vars(OnCollisionEndOne \/ NoCollisionEnd)
  /\ WF_vars(GameUpdateAway)

SpecLive == Spec /\ Fairness

\* The whole game: the three scenes and the trigger zones, coarse physics,
\* collision events of one or two pairs
PhysicsStepCoarse == PhysicsStepIn(CoarseVelX, CoarseVelY)

OnCollisionStart == OnCollisionStartIn(Events)

OnCollisionEnd == OnCollisionEndIn(Events)

NextGame ==
  \/ StartGame
  \/ KeyUpDown
  \/ KeyUpUp
  \/ ClockUpdate
  \/ PhysicsStepCoarse
  \/ OnCollisionStart
  \/ NoCollisionStart
  \/ OnCollisionEnd
  \/ NoCollisionEnd
  \/ GameUpdate
  \/ RampUpdate
  \/ RampEscape
  \/ EnterRampRoom
  \/ ReturnToGame

SpecGame == Init /\ [][NextGame]_vars

\* The scenes and their music alone: the player in the air, no key but ESC
NextScenes ==
  \/ StartGame
  \/ ClockUpdate
  \/ PhysicsStepCoarse
  \/ NoCollisionStart
  \/ NoCollisionEnd
  \/ GameUpdate
  \/ RampUpdate
  \/ RampEscape
  \/ EnterRampRoom
  \/ ReturnToGame

SpecScenes == Init /\ [][NextScenes]_vars

----------------------------------------------------------------------------
\* The scenes under the event stream the engine produces: a pair is reported
\* in collisionstart when its two bodies begin to touch and in collisionend
\* when they cease to, so each end follows its own begin.  The static bodies
\* stand for any two pieces of terrain.

\* the static body of a foot-sensor pair
StaticOf(p) == IF p.bodyA.label = "FOOT_SENSOR" THEN p.bodyB ELSE p.bodyA

FootStatics(e) == { StaticOf(e[i]) : i \in { j \in 1..Len(e) : FootPair(e[j]) } }

\* collisionstart with pairs that were not touching
ContactStart ==
  \E e \in Events :
    /\ FootPairs(e) = Cardinality(FootStatics(e))
    /\ FootStatics(e) \cap touching = { }
    /\ CollisionStart(e)
    /\ touching' = touching \cup FootStatics(e)

\* collisionend with pairs that were touching
ContactEnd ==
  \E e \in Events :
    /\ FootPairs(e) = Cardinality(FootStatics(e))
    /\ FootStatics(e) \subseteq touching
    /\ CollisionEnd(e)
    /\ touching' = touching \ FootStatics(e)

NextContacts ==
  \/ StartGame
  \/ ClockUpdate
  \/ PhysicsStepCoarse
  \/ ContactStart
  \/ NoCollisionStart
  \/ ContactEnd
  \/ NoCollisionEnd
  \/ GameUpdate
  \/ RampUpdate
  \/ RampEscape
  \/ EnterRampRoom
  \/ ReturnToGame

SpecContacts == Init /\ [][NextContacts]_vars

----------------------------------------------------------------------------
\* The terrain builders on their own: each is called once, while a scene is
\* constructed, with a point list of any length up to MaxPoints, repeated and
\* collinear points included, or with the authored ramp.

MaxPoints == 3

PointSamples ==
  { [x |-> 0, y |-> 0], [x |-> 2, y |-> 0], [x |-> 4, y |-> 0],
    [x |-> 2, y |-> 2] }

PointLists ==
  UNION { [1..n -> PointSamples] : n \in 0..MaxPoints } \cup { RampPoints }

InitTerrain ==
  /\ InitPlay
  /\ points \in PointLists
  /\ built = NoTerrain
  /\ touching = { }

\* createRampEdges(scene, points)
BuildRampEdges ==
  /\ built = NoTerrain
  /\ built' = CreateRampEdges(points)
  /\ UNCHANGED << playVars, points, touching >>

\* createSplineGround(scene, points)
BuildSplineGround ==
  /\ built = NoTerrain
  /\ built' \in PolygonOutcomes("createSplineGround", points)
  /\ UNCHANGED << playVars, points, touching >>

\* RampScene.createMatterPolygon(points)
BuildMatterPolygon ==
  /\ built = NoTerrain
  /\ built' \in PolygonOutcomes("createMatterPolygon", points)
  /\ UNCHANGED << playVars, points, touching >>

\* RampScene.create, from the top points to the collision polygon
BuildRamp ==
  /\ built = NoTerrain
  /\ built' \in { [o EXCEPT !.by = "RampScene.create"] : o \in RampTerrain(points) }
  /\ UNCHANGED << playVars, points, touching >>

NextTerrain ==
  \/ BuildRampEdges
  \/ BuildSplineGround
  \/ BuildMatterPolygon
  \/ BuildRamp

SpecTerrain == InitTerrain /\ [][NextTerrain]_vars

----------------------------------------------------------------------------
\* The controller on its own: update() called on a controller whose player
\* reference is null, or whose sprite has been destroyed (no body), as a
\* late tick of a scene being torn down finds it.

InitUnit ==
  /\ scene = "GameScene"
  /\ player \in { "destroyed", "null" }
  /\ onGroundContacts \in 0..1
  /\ isKicking \in BOOLEAN
  /\ timers = IF isKicking THEN << 0 >> ELSE << >>
  /\ isBraking = FALSE
  /\ flipX \in BOOLEAN
  /\ pose \in { "idle", "roll" }
  /\ vx \in VelXSamples
  /\ vy = 0
  /\ upKey = NoKey
  /\ collectibleCollected = FALSE
  /\ collectible = TRUE
  /\ score = 0
  /\ blocked = FALSE
  /\ accelX = 0
  /\ dragX = 0
  /\ pc = "clock"
  /\ sincePress = 2
  /\ lastOp = NoOp("init")
  /\ threw = FALSE
  /\ height = 0
  /\ ticks = 0
  /\ jumps = 0
  /\ bgMusic = TRUE
  /\ rampMusic = FALSE
  /\ playing = PlayTrack(Silence, "mainMusic")
  /\ points = << >>
  /\ built = NoTerrain
  /\ touching = { }

UnitUpdateWith(l, r, d) ==
  /\ ControllerUpdate(l, r, d, FALSE, FALSE)
  /\ UNCHANGED << scene, player, onGroundContacts, hubVars, arcadeVars, pc,
                  stageVars, musicVars, terrainVars, touching >>

UnitUpdate == \E l, r, d \in BOOLEAN : UnitUpdateWith(l, r, d)

NextUnit ==
  \/ KeyUpDown
  \/ KeyUpUp
  \/ UnitUpdate

SpecUnit == InitUnit /\ [][NextUnit]_vars

----------------------------------------------------------------------------
\* The braking scenario: the player rolls right at maxVelX on the flat ground of
\* the hub, down is held and neither left nor right, for BrakeTicks frames.

BrakeTicks == 8

\* createPlayer: frictionAir 0.02, applied to the velocity by every world step
AirDrag(v) == MulDiv(v, 98, 100)

InitBrake ==
  /\ scene = "GameScene"
  /\ player = "sprite"
  /\ onGroundContacts = 1
  /\ isKicking = FALSE
  /\ isBraking = FALSE
  /\ flipX = FALSE
  /\ pose = "roll"
  /\ vx = MaxVelX
  /\ vy = 0
  /\ timers = << >>
  /\ upKey = NoKey
  /\ collectibleCollected = FALSE
  /\ collectible = TRUE
  /\ score = 0
  /\ blocked = FALSE
  /\ accelX = 0
  /\ dragX = 0
  /\ pc = "clock"
  /\ sincePress = 2
  /\ lastOp = NoOp("init")
  /\ threw = FALSE
  /\ height = 0
  /\ ticks = 0
  /\ jumps = 0
  /\ bgMusic = TRUE
  /\ rampMusic = FALSE
  /\ playing = PlayTrack(Silence, "mainMusic")
  /\ points = << >>
  /\ built = GroundSlab
  /\ touching = { }

\* The world step on the frictionless flat ground: air drag on the horizontal
\* velocity, or none; the player rests on the ground
BrakePhysics ==
  /\ Playing /\ pc = "physics"
  /\ ticks < BrakeTicks
  /\ ticks' = ticks + 1
  /\ vx' \in { vx, AirDrag(vx) }
  /\ vy' = 0
  /\ pc' = "start"
  /\ lastOp' = NoOp("physics")
  /\ UNCHANGED << scene, player, onGroundContacts, isKicking, isBraking, flipX,
                  pose, timers, upKey, hubVars, arcadeVars, sincePress, threw,
                  height, jumps, musicVars, terrainVars, touching >>

\* update() with down held and neither left nor right
BrakeUpdate == GameUpdateWith(FALSE, FALSE, TRUE, FALSE, FALSE)

NextBrake ==
  \/ ClockUpdate
  \/ BrakePhysics
  \/ NoCollisionStart
  \/ NoCollisionEnd
  \/ BrakeUpdate

SpecBrake == InitBrake /\ [][NextBrake]_vars

----------------------------------------------------------------------------
\* The landing scenario: the hub as GameScene.create leaves it, the player in
\* the air above the flat ground, no key touched.

\* The gap under the foot sensor at the start: the sprite is placed 200 px
\* above the wheel line, the sensor's lower edge is 93 px below the sprite's
\* origin (offsetY 25 + BODY_HEIGHT / 2 + 5 + 3)
DropHeight == 10700

\* gravity: { y: 1 }: what one world step adds to velocity.y
Gravity == 28

\* The gap after a step that moves the player down by v
Hover(h, v) == h

Fall(h, v) == IF h > v THEN h - v ELSE 0

InitLand ==
  /\ scene = "GameScene"
  /\ player = "sprite"
  /\ onGroundContacts = 0
  /\ isKicking = FALSE
  /\ isBraking = FALSE
  /\ flipX = FALSE
  /\ pose = "idle"
  /\ vx = 0
  /\ vy = 0
  /\ timers = << >>
  /\ upKey = NoKey
  /\ collectibleCollected = FALSE
  /\ collectible = TRUE
  /\ score = 0
  /\ blocked = FALSE
  /\ accelX = 0
  /\ dragX = 0
  /\ pc = "clock"
  /\ sincePress = 2
  /\ lastOp = NoOp("init")
  /\ threw = FALSE
  /\ height = DropHeight
  /\ ticks = 0
  /\ jumps = 0
  /\ bgMusic = TRUE
  /\ rampMusic = FALSE
  /\ playing = PlayTrack(Silence, "mainMusic")
  /\ points = << >>
  /\ built = GroundSlab
  /\ touching = { }

\* The world step: air drag, and gravity while nothing is under the player
LandPhysics ==
  /\ Playing /\ pc = "physics"
  /\ vx' = AirDrag(vx)
  /\ vy' = IF height > 0 THEN AirDrag(vy) + Gravity ELSE 0
  /\ height' = IF height > 0 THEN Fall(height, AirDrag(vy) + Gravity) ELSE 0
  /\ pc' = "start"
  /\ lastOp' = NoOp("physics")
  /\ UNCHANGED << scene, player, onGroundContacts, isKicking, isBraking, flipX,
                  pose, timers, upKey, hubVars, arcadeVars, sincePress, threw,
                  ticks, jumps, musicVars, terrainVars, touching >>

\* The foot sensor reaches the ground slab: one collisionstart event
Touchdown ==
  { << [bodyA |-> a, bodyB |-> b] >> :
      a \in { x \in Bodies : x.label = "GROUND" },
      b \in { x \in Bodies : x.label = "FOOT_SENSOR" } }

LandCollisionStart ==
  /\ height = 0 /\ ~onGround
  /\ OnCollisionStartIn(Touchdown)

LandNoCollisionStart ==
  /\ height > 0 \/ onGround
  /\ NoCollisionStart

\* update() with no key held
LandUpdate == GameUpdateWith(FALSE, FALSE, FALSE, FALSE, FALSE)

NextLand ==
  \/ ClockUpdate
  \/ LandPhysics
  \/ LandCollisionStart
  \/ LandNoCollisionStart
  \/ NoCollisionEnd
  \/ LandUpdate

SpecLand ==
  /\ InitLand /\ [][NextLand]_vars
  /\ WF_vars(ClockUpdate)
  /\ WF_vars(LandPhysics)
  /\ WF_vars(LandCollisionStart \/ LandNoCollisionStart)
  /\ WF_vars(NoCollisionEnd)
  /\ WF_vars(LandUpdate)

----------------------------------------------------------------------------
\* The first revision (main.js:38-250): arcade physics, the locomotion code
\* inline in GameScene.update.  Velocities are in px/s as the source has them.

Rev1JumpSpeed == -420
Rev1Accel == 800
Rev1IdleThreshold == 20
Rev1BaseDragX == 200
Rev1BrakeDragX == 800
Rev1KickDelay == 500

Rev1VelX == { 0, 300 }
Rev1VelY == { 0, 200 }

\* GameScene.create
Rev1Start ==
  /\ scene = "TitleScene"
  /\ scene' = "GameScene"
  /\ FreshPlayer
  /\ collectible' = TRUE
  /\ score' = 0
  /\ dragX' = Rev1BaseDragX
  /\ pc' = "clock"
  /\ lastOp' = Teardown
  /\ UNCHANGED << collectibleCollected, blocked, accelX, stageVars, musicVars,
                  terrainVars >>

\* this.time.delayedCall(500, () => { if (!this.player || !this.player.body) return;
\*                                    this.isKicking = false; })
Rev1Clock ==
  /\ scene = "GameScene" /\ pc = "clock"
  /\ \E delta \in FrameDeltas :
       LET aged  == Aged(timers, delta)
           fired == Len(Pending(aged, Rev1KickDelay)) < Len(aged)
       IN  /\ timers' = Pending(aged, Rev1KickDelay)
           /\ isKicking' = IF fired /\ player = "sprite" THEN FALSE ELSE isKicking
           /\ lastOp' = IF fired THEN NoOp("expiry") ELSE NoOp("clock")
  /\ pc' = "physics"
  /\ UNCHANGED << scene, player, onGroundContacts, isBraking, flipX, pose, vx, vy,
                  upKey, hubVars, arcadeVars, sincePress, threw, stageVars,
                  jumps, musicVars, terrainVars, touching >>

\* The arcade world step: velocity and blocked.down are the engine's
Rev1Physics ==
  /\ scene = "GameScene" /\ pc = "physics"
  /\ vx' \in Rev1VelX
  /\ vy' \in Rev1VelY
  /\ blocked' \in BOOLEAN
  /\ pc' = "update"
  /\ lastOp' = NoOp("physics")
  /\ UNCHANGED << scene, player, onGroundContacts, isKicking, isBraking, flipX,
                  pose, timers, upKey, hubVars, accelX, dragX, sincePress, threw,
                  stageVars, jumps, musicVars, terrainVars, touching >>

\* onGround && Phaser.Input.Keyboard.JustDown(this.cursors.up): the latch is
\* read, and cleared, only when onGround is true
Rev1AfterJump(g, key) == IF g THEN AfterJustDown(key) ELSE key

\* GameScene.update (main.js:161-249)
Rev1UpdateWith(l, r, d) ==
  /\ scene = "GameScene" /\ pc = "update"
  /\ sincePress' = Tick(sincePress)
  /\ IF player # "sprite"
     THEN /\ lastOp' = Op("update", FALSE, FALSE, vx, 0, FALSE, FALSE)
          /\ UNCHANGED << ctlVars, upKey, accelX, dragX >>
     ELSE LET g    == blocked
              kick == ~isKicking /\ g /\ Abs(vx) < Rev1IdleThreshold /\ (l \/ r)
              jump == g /\ JustDown(upKey)
              k1   == isKicking \/ kick
              b1   == g /\ d
          IN  /\ isKicking' = k1
              /\ timers' = IF kick THEN DelayedCall(timers) ELSE timers
              /\ isBraking' = b1
              /\ dragX' = IF b1 THEN Rev1BrakeDragX ELSE Rev1BaseDragX
              /\ accelX' = IF d THEN 0 ELSE IF l THEN -Rev1Accel
                           ELSE IF r THEN Rev1Accel ELSE 0
              /\ flipX' = NextFlipX(flipX, l, r, d)
              /\ vx' = vx
              /\ vy' = IF jump THEN Rev1JumpSpeed ELSE vy
              /\ upKey' = Rev1AfterJump(g, upKey)
              /\ pose' = PoseOf(g, b1, k1, Abs(vx) < Rev1IdleThreshold)
              /\ lastOp' = Op("update", kick, jump, vx, 0, FALSE, FALSE)
  /\ pc' = "clock"
  /\ UNCHANGED << scene, player, onGroundContacts, hubVars, blocked, threw,
                  stageVars, jumps, musicVars, terrainVars, touching >>

Rev1Update == \E l, r, d \in BOOLEAN : Rev1UpdateWith(l, r, d)

NextRev1 ==
  \/ Rev1Start
  \/ KeyUpDown
  \/ KeyUpUp
  \/ Rev1Clock
  \/ Rev1Physics
  \/ Rev1Update

SpecRev1 == Init /\ [][NextRev1]_vars

----------------------------------------------------------------------------
\* Properties

\* C1: for every sequence of foot-sensor contact-begin and contact-end events,
\* end events without a begin included, the ground-contact counter is never
\* negative, and onGround is true exactly when the counter is above zero.
C1_CounterNeverNegative ==
  /\ onGroundContacts >= 0
  /\ onGround <=> onGroundContacts > 0

\* an end event of the foot sensor and a static body arrives with the counter at 0
C1_EndAtZero ==
  /\ lastOp.op = "collisionend"
  /\ lastOp.before = 0
  /\ lastOp.foot > 0
  /\ onGroundContacts = 0

\* C2: a pair made of the foot sensor and a static body changes the counter by
\* +1 on a begin event and by -1 floored at 0 on an end event, in the hub's
\* handlers and in the ramp's; every other pair leaves the counter unchanged.
C2_PairEffect ==
  /\ lastOp.op = "collisionstart" =>
       onGroundContacts = lastOp.before + lastOp.foot
  /\ lastOp.op = "collisionend" =>
       onGroundContacts = (IF lastOp.before > lastOp.foot
                           THEN lastOp.before - lastOp.foot ELSE 0)

\* the ramp's end handler takes one foot-sensor contact off a counter of 2
C2_RampEndOne ==
  /\ scene = "RampScene"
  /\ lastOp.op = "collisionend"
  /\ lastOp.foot = 1
  /\ lastOp.before = 2
  /\ onGroundContacts = 1

\* C3: while a kick is active the kick-start branch does not run again: at most
\* one expiry is pending, and an update that runs the branch leaves exactly
\* the expiry it has just scheduled.
C3_KickOnce ==
  /\ Len(timers) <= 1
  /\ lastOp.kicked => (isKicking /\ timers = << 0 >>)

\* an update on the ground, standing still, right held, during an active kick
C3_HeldDuringKick ==
  /\ lastOp.op = "update"
  /\ ~lastOp.kicked
  /\ isKicking
  /\ onGround
  /\ Still(lastOp.before)
  /\ vx = lastOp.before + MoveAccel
  /\ Len(timers) = 1
  /\ timers[1] > 0

\* C4: vertical velocity is set to jumpSpeed only on the first update after the
\* up key went down, never on a later update of the same hold.
C4_JumpOnlyOnEdgeTick == lastOp.jumped => sincePress = 1

\* C5: after every update the horizontal velocity is within +-maxVelX.
C5_ClampedVX == lastOp.op = "update" => Abs(vx) <= MaxVelX

\* the physics step handed a velocity above maxVelX and the update cut it
C5_CutToMax ==
  /\ lastOp.op = "update"
  /\ lastOp.before > MaxVelX
  /\ vx = MaxVelX

\* C6: the pose at the end of an update follows the priority
\* air > brake > push > idle > roll.
C6_PosePriority ==
  lastOp.op = "update" =>
    /\ ~onGround => pose = "air"
    /\ (onGround /\ isBraking) => pose = "brake"
    /\ (onGround /\ ~isBraking /\ isKicking) => pose = "push"
    /\ (onGround /\ ~isBraking /\ ~isKicking /\ Still(vx)) => pose = "idle"
    /\ (onGround /\ ~isBraking /\ ~isKicking /\ ~Still(vx)) => pose = "roll"

\* an update that starts a kick while braking ends in the brake pose
C6_KickUnderBrake ==
  /\ lastOp.kicked
  /\ isBraking
  /\ pose = "brake"

\* C7: the collectible is single-use: the score is 0 before the pickup and 10
\* after it, an overlapping update always leaves the collectible consumed and
\* the score at 10, however many overlapping updates follow.
C7_CollectOnce ==
  /\ score = (IF collectibleCollected THEN Reward ELSE 0)
  /\ scene = "GameScene" => (collectible <=> ~collectibleCollected)
  /\ lastOp.ovC => (collectibleCollected /\ score = Reward)
  /\ lastOp.collected => lastOp.ovC

\* an overlapping update after the pickup
C7_SecondOverlap ==
  /\ lastOp.ovC
  /\ ~lastOp.collected
  /\ collectibleCollected
  /\ score = Reward

\* C8: update() on a controller whose player reference is null returns
\* without raising an exception.
C8_NullPlayerReturns == (lastOp.op = "update" /\ player = "null") => ~threw

\* C9: update() on a controller whose sprite has no body changes nothing.
C9_NoBodyNoChange ==
  [][(player = "destroyed" /\ lastOp'.op = "update")
       => (UNCHANGED ctlVars /\ ~threw')]_vars

\* an update found no body in a state where a kick would otherwise start
C9_NoBodyAtStandstill ==
  /\ player = "destroyed"
  /\ lastOp.op = "update"
  /\ onGround
  /\ Still(vx)
  /\ ~isKicking
  /\ timers = << >>

C11_KickExpires ==
  /\ isKicking ~> ~isKicking
  /\ [][(isKicking /\ ~isKicking') => lastOp'.op = "expiry"]_vars

\* the kick ran out while the player was airborne
C11_ExpiredInAir ==
  /\ lastOp.op = "expiry"
  /\ ~isKicking
  /\ ~onGround
  /\ timers = << >>

\* C12: from +maxVelX on the ground, with down held and neither direction, on
\* every frame: the update leaves a velocity that is positive, strictly below
\* the one it found and at most three quarters of it (so the sequence tends to
\* zero), the player is braking, and no other step of the frame raises the
\* velocity or changes its sign.
C12_BrakingDecreases ==
  [][/\ 0 < vx' /\ vx' <= vx
     /\ lastOp'.op = "update" =>
          (isBraking' /\ vx' < vx /\ 4 * vx' <= 3 * vx)]_vars

\* the last frame of the scenario: still rolling right, far below maxVelX
C12_NearlyStopped ==
  /\ ticks = BrakeTicks
  /\ lastOp.op = "update"
  /\ isBraking
  /\ 0 < vx
  /\ 8 * vx < MaxVelX

\* C13: an update that finds the player airborne leaves isBraking false and
\* applies the non-braking horizontal control, down held or not: left lowers
\* the velocity by moveAccel and faces left, right mirrors it, neither lets
\* the velocity drift (all within the clamp).
C13_AirborneControl ==
  [][\A l, r, d \in BOOLEAN :
       (/\ ~(l /\ r)
        /\ ~onGround
        /\ GameUpdateWith(l, r, d, FALSE, FALSE))
       => /\ ~isBraking'
          /\ l => (vx' = ClampVX(vx - MoveAccel) /\ flipX')
          /\ r => (vx' = ClampVX(vx + MoveAccel) /\ ~flipX')
          /\ (~l /\ ~r) => (vx' = ClampVX(Drift(vx)) /\ flipX' = flipX)]_vars

\* C14: after an update with exactly one of left and right held the sprite
\* faces that direction, whatever down, the ground flag and isKicking are;
\* after an update with neither held the facing is unchanged.
C14_FacingMirrorsInput ==
  [][\A l, r, d \in BOOLEAN :
       GameUpdateWith(l, r, d, FALSE, FALSE)
       => /\ (l /\ ~r) => flipX'
          /\ (r /\ ~l) => ~flipX'
          /\ (~l /\ ~r) => flipX' = flipX]_vars

\* C15: during one ground contact (the counter above 0 without a break) at
\* most one update sets the vertical velocity to jumpSpeed, however often the
\* up key is released and pressed again, and no update sets it while onGround
\* is false.
C15_OneJumpPerContact ==
  /\ jumps <= 1
  /\ lastOp.jumped => onGround

\* C16: after every update, whatever the keys, the ground state and whether
\* the update jumped, the vertical velocity is at most maxVelY.
C16_ClampedVY == lastOp.op = "update" => vy <= MaxVelY

\* the world step handed a fall speed above maxVelY and the update cut it
C16_FallCut ==
  /\ lastOp.op = "update"
  /\ ~lastOp.jumped
  /\ vy = MaxVelY

\* C17: dropped from rest above flat ground with no key touched, the player
\* eventually has onGround true, and at every moment of the fall and after
\* it velocity.x is 0 and isKicking and isBraking are false.
C17_Lands ==
  /\ <>onGround
  /\ [](vx = 0 /\ ~isKicking /\ ~isBraking)

\* the player stands on the ground after the drop
C17_Landed ==
  /\ lastOp.op = "update"
  /\ onGround
  /\ height = 0
  /\ vx = 0 /\ vy = 0
  /\ pose = "idle"

\* C18: one scene is active at a time, out of Title, Hub and RampRoom; the
\* scene changes only Title -> Hub on the SPACE press, Hub -> RampRoom after
\* an update in which the player overlaps the hustle point, and RampRoom -> Hub
\* after an update that finds ESC just pressed; nothing leads back to Title.
C18_SceneTransitions ==
  [][/\ scene' \in { "TitleScene", "GameScene", "RampScene" }
     /\ scene' # scene =>
          \/ scene = "TitleScene" /\ scene' = "GameScene" /\ pc = "title"
          \/ scene = "GameScene" /\ scene' = "RampScene" /\ pc = "toRamp"
          \/ scene = "RampScene" /\ scene' = "GameScene" /\ pc = "toGame"
     /\ (scene = "GameScene" /\ pc = "update") =>
          \A ovP \in BOOLEAN :
             (\E l, r, d, ovC \in BOOLEAN : GameUpdateWith(l, r, d, ovC, ovP))
             => (pc' = "toRamp" <=> ovP)
     /\ (pc' = "toRamp" /\ pc # "toRamp") =>
          (scene = "GameScene" /\ lastOp'.op = "update")
     /\ (pc' = "toGame" /\ pc # "toGame") =>
          (scene = "RampScene" /\ lastOp'.op = "escape")]_vars

\* ESC was found just pressed in the ramp room, entered from the hub
C18_EscapeInRamp ==
  /\ scene = "RampScene"
  /\ pc = "toGame"
  /\ lastOp.op = "escape"

\* C19: every entry into the hub or the ramp room starts fresh: the new
\* player's contact counter is 0, the new controller is neither kicking nor
\* braking, and on hub entry the score is 0 and the collectible unconsumed,
\* whatever the scene torn down was left with.
C19_FreshOnEntry ==
  lastOp.op = "start" =>
    /\ player = "sprite"
    /\ onGroundContacts = 0
    /\ ~isKicking /\ ~isBraking
    /\ scene = "GameScene" =>
         (score = 0 /\ ~collectibleCollected /\ collectible)

\* the hub entered again from the ramp room, which was left on the ground,
\* after a hub run that had consumed the collectible
C19_HubReentered ==
  /\ lastOp.op = "start"
  /\ scene = "GameScene"
  /\ lastOp.left.score = Reward
  /\ lastOp.left.contacts > 0
  /\ score = 0
  /\ collectible
  /\ onGroundContacts = 0

\* C20: a kick expiry still pending when its scene is torn down never runs:
\* the scene started next has no pending expiry, and its controller's
\* isKicking, false at entry, is cleared by no expiry of an earlier scene.
C20_NoExpiryAcrossScenes ==
  /\ lastOp.op = "start" => (timers = << >> /\ ~isKicking)
  /\ (Playing /\ ~isKicking) => timers = << >>

\* a scene was torn down in mid-kick, its expiry pending
C20_TornDownInKick ==
  /\ lastOp.op = "start"
  /\ lastOp.left.isKicking
  /\ lastOp.left.pending = 1
  /\ timers = << >>
  /\ ~isKicking

\* C21: however long the player overlaps the hustle point, the portal fires
\* once: the update that finds the overlap stops the hub's track and drops the
\* reference, and the hub does not tick again: the very next step builds the
\* ramp room, with one new player and one ramp track playing.
C21_PortalFiresOnce ==
  [][/\ (scene = "GameScene" /\ pc = "update"
         /\ \E l, r, d, ovC \in BOOLEAN : GameUpdateWith(l, r, d, ovC, TRUE))
        => (pc' = "toRamp" /\ ~bgMusic' /\ playing'.mainMusic = 0)
     /\ pc = "toRamp"
        => /\ scene' = "RampScene"
           /\ lastOp'.op = "start"
           /\ player' = "sprite"
           /\ rampMusic'
           /\ playing' = [mainMusic |-> 0, rampMusic |-> 1]]_vars

\* the portal has fired: the hub's music is off, the ramp room not yet built
C21_PortalFired ==
  /\ scene = "GameScene"
  /\ pc = "toRamp"
  /\ lastOp.op = "update"
  /\ ~bgMusic
  /\ playing = Silence

\* C28: at most one music track plays at any time and it is the active
\* scene's: the hub's track while the hub runs, the ramp's while the ramp room
\* runs, none on the title and between a scene's exit and the next scene.
C28_OneTrack ==
  /\ playing.mainMusic + playing.rampMusic <= 1
  /\ playing.mainMusic >= 0 /\ playing.rampMusic >= 0
  /\ playing.mainMusic = 1 <=> (scene = "GameScene" /\ pc # "toRamp")
  /\ playing.rampMusic = 1 <=> (scene = "RampScene" /\ pc # "toGame")

\* back in the hub from the ramp room, the hub's track alone playing
C28_BackInHub ==
  /\ lastOp.op = "start"
  /\ lastOp.left.scene = "RampScene"
  /\ scene = "GameScene"
  /\ playing = [mainMusic |-> 1, rampMusic |-> 0]

\* C22: a terrain builder (createRampEdges, createSplineGround,
\* createMatterPolygon) handed fewer than 2 points, or two equal consecutive
\* points, signals an error and creates no collision shape.
C22_InvalidTerrainFailsFast ==
  LET invalid ==
        \/ Len(points) < 2
        \/ \E i \in 1..(Len(points) - 1) : points[i] = points[i + 1]
  IN  (/\ built.by \in { "createRampEdges", "createSplineGround",
                         "createMatterPolygon" }
       /\ invalid)
      => (built.threw /\ built.shapes = << >>)

\* C23: from n >= 2 points createRampEdges creates exactly n-1 static
\* segments; segment i has the midpoint of points i and i+1 and their distance
\* as its length and runs from point i to point i+1, so each segment ends
\* where the next one starts.
C23_SegmentChainContinuous ==
  (built.by = "createRampEdges" /\ Len(points) >= 2)
  => /\ ~built.threw
     /\ Len(built.shapes) = Len(points) - 1
     /\ \A i \in 1..(Len(points) - 1) :
          LET sg == built.shapes[i]
              p  == points[i]
              q  == points[i + 1]
          IN  /\ sg.isStatic
              /\ sg.mid2 = [x |-> p.x + q.x, y |-> p.y + q.y]
              /\ sg.len2 = (q.x - p.x) * (q.x - p.x) + (q.y - p.y) * (q.y - p.y)
              /\ SegStart2(sg) = [x |-> 2 * p.x, y |-> 2 * p.y]
              /\ SegEnd2(sg) = [x |-> 2 * q.x, y |-> 2 * q.y]
     /\ \A i \in 1..(Len(points) - 2) :
          SegEnd2(built.shapes[i]) = SegStart2(built.shapes[i + 1])

\* three collinear points made into two segments
C23_ThreeCollinear ==
  /\ built.by = "createRampEdges"
  /\ points = << [x |-> 0, y |-> 0], [x |-> 2, y |-> 0], [x |-> 4, y |-> 0] >>
  /\ Len(built.shapes) = 2

\* C29: the ramp collision polygon RampScene.create builds from n top points
\* has 2n vertices: the first n are the top points in order, the last n the
\* top points in reverse order with y increased by 40; the top list itself is
\* left as it was.
C29_RampPolygon ==
  [][(/\ built = NoTerrain
      /\ built'.by = "RampScene.create"
      /\ built'.shapes # << >>)
     => LET b == built'.shapes[1]
            n == Len(points)
        IN  /\ points' = points
            /\ Len(b.verts) = 2 * n
            /\ \A i \in 1..n :
                 /\ b.verts[i].x + b.centre.x = 2 * n * points[i].x
                 /\ b.verts[i].y + b.centre.y = 2 * n * points[i].y
            /\ \A i \in (n + 1)..(2 * n) :
                 /\ b.verts[i].x + b.centre.x = 2 * n * points[2 * n + 1 - i].x
                 /\ b.verts[i].y + b.centre.y
                      = 2 * n * (points[2 * n + 1 - i].y + 40)]_vars

\* the authored ramp made into its polygon of 42 vertices
C29_AuthoredRampBuilt ==
  /\ built.by = "RampScene.create"
  /\ points = RampPoints
  /\ Len(built.shapes) = 1
  /\ Len(built.shapes[1].verts) = 42

\* C24: on a tick on which the controller brakes (on the ground with down
\* held), whatever left, right and isKicking are, |velocity.x| after the tick
\* is not greater than before it.
C24_BrakingAddsNoSpeed ==
  (lastOp.op = "update" /\ isBraking /\ player = "sprite")
  => Abs(vx) <= Abs(lastOp.before)

\* C27: after a tick that enters the kicking state the sign of velocity.x
\* matches the facing, whichever of left and right are held (both included):
\* facing left (flipX) with velocity.x < 0, facing right with velocity.x > 0.
C27_KickMatchesFacing ==
  (lastOp.op = "update" /\ lastOp.kicked)
  => IF flipX THEN vx < 0 ELSE vx > 0

\* C25: at most one kick expiry is pending at any time and isKicking is true
\* exactly while one is pending; an expiry is scheduled only when isKicking
\* goes from false to true, and isKicking goes from true to false only when the
\* pending expiry fires.
C25_OneExpiryPending ==
  [][/\ Len(timers') <= 1
     /\ isKicking' <=> Len(timers') = 1
     /\ Len(timers') > Len(timers) => (~isKicking /\ isKicking')
     /\ (~isKicking /\ isKicking') => (timers = << >> /\ timers' = << 0 >>)
     /\ (isKicking /\ ~isKicking')
        => (lastOp'.op = "expiry" /\ Len(timers) = 1 /\ timers' = << >>)]_vars

\* a frame into a kick: the expiry pending, not yet due
C25_ExpiryPending ==
  /\ lastOp.op = "clock"
  /\ isKicking
  /\ Len(timers) = 1
  /\ timers[1] > 0
  /\ timers[1] < KickDelay

\* C26: under an event stream in which each end of a foot-sensor/static
\* contact follows its own begin, starting from no contacts, the counter
\* equals the number of such contacts begun and not yet ended; so onGround
\* holds as long as one contact lasts and fails once all have ended.
C26_CounterCountsContacts ==
  /\ onGroundContacts = Cardinality(touching)
  /\ onGround <=> touching # { }

\* begin A, begin B, end A in the ramp room: one contact left, on the ground
C26_OneOfTwoEnded ==
  /\ scene = "RampScene"
  /\ lastOp.op = "collisionend"
  /\ lastOp.before = 2
  /\ lastOp.foot = 1
  /\ Cardinality(touching) = 1
  /\ onGroundContacts = 1
  /\ onGround

=============================================================================
